---- MODULE Spec2Model ----
(***************************************************************************)
(* A model of SceneDatabase (src/database/db_handler.py): one sqlite3      *)
(* connection in Python's default (legacy, deferred) transaction mode over *)
(* five tables.  The connection state is the committed file contents       *)
(* (disk), the connection's own view of the tables (db, which includes     *)
(* uncommitted changes) and whether a transaction is open (inTxn).         *)
(*                                                                         *)
(* Every method is a pure operator over that connection state, named as in *)
(* the source, and returns an outcome [c, status, ret]; the actions call   *)
(* the operators with inputs drawn from small sets.                        *)
(***************************************************************************)
EXTENDS Integers, Sequences, FiniteSets, TLC

VARIABLES
    disk,     \* the committed contents of the database file
    db,       \* the tables as the open connection sees them
    inTxn,    \* sqlite3.Connection.in_transaction
    isOpen,   \* the connection is open (between __init__ and close)
    issued,   \* history: every id create_scene has returned on this file
    last      \* history: the last call, <<op, status, args, ret>>

vars == <<disk, db, inTxn, isOpen, issued, last>>

\* ---------------------------------------------------------------- bounds

MaxScenes == 3
MaxDets == 2
MaxAnns == 1
MaxDescs == 2
MaxAssign == 2
MaxTs == 3
MaxBatch == 2
\* The scenes of the specifications about dependent rows, updates and queries.
MaxParents == 2

\* ---------------------------------------------------------------- values

\* SQL NULL / Python None.  Column values other than keys and timestamps are
\* strings, so that NULL is comparable with them.
NULL == "NULL"
None == [type |-> "NoneType"]
\* A Python value of a type sqlite3 cannot bind (a list, a dict, ...).
Unbindable == "<list>"

Max(S) == CHOOSE x \in S : \A y \in S : y <= x
Min(S) == CHOOSE x \in S : \A y \in S : x <= y
Min2(a, b) == IF a <= b THEN a ELSE b

\* dict.get(key): the value, or None when the key is absent.
Get(d, k) == IF k \in DOMAIN d THEN d[k] ELSE NULL

\* ---------------------------------------------------------------- schema

SceneCols == <<"scene_id", "timestamp", "latitude", "longitude", "resolution",
               "camera_id", "media_path">>
DetCols == <<"detection_id", "scene_id", "class_label", "confidence",
             "x_min", "y_min", "x_max", "y_max">>
AnnCols == <<"annotation_id", "scene_id", "label_type", "description",
             "class_label", "x_min", "y_min", "x_max", "y_max", "annotated_by">>
DescCols == <<"description_id", "scene_id", "description", "confidence",
              "model_version">>
DatasetCols == <<"scene_id", "dataset_type">>

Range(s) == {s[i] : i \in DOMAIN s}

\* The file right after the schema script ran on a new file: five empty
\* tables; seq is sqlite_sequence, the last key handed out per table.
EmptyDb ==
    [scenes |-> {}, detections |-> {}, annotations |-> {},
     descriptions |-> {}, datasets |-> {},
     seq |-> [scenes |-> 0, detections |-> 0, annotations |-> 0,
              descriptions |-> 0]]

\* The key of the next inserted row: one more than the largest key the table
\* has ever held (sqlite_sequence is a table, so it is rolled back with the
\* rest of a transaction).
NextId(d, table, keycol) ==
    Max({d.seq[table]} \cup {r[keycol] : r \in d[table]}) + 1

\* PRAGMA foreign_keys of the connection: sqlite3.connect leaves it at
\* SQLite's default, off, and no statement of the class turns it on.
foreign_keys == FALSE

\* The foreign-key check of an insert into a dependent table.
FkOk(d, scene_id) ==
    foreign_keys => \E s \in d.scenes : s.scene_id = scene_id

\* ------------------------------------------------------------ connection

\* Connection.commit / Connection.rollback, and the implicit BEGIN that the
\* legacy transaction mode issues before INSERT, UPDATE and DELETE.
commit(c) == [c EXCEPT !.disk = c.db, !.inTxn = FALSE]
rollback(c) == [c EXCEPT !.db = c.disk, !.inTxn = FALSE]
begin(c) == [c EXCEPT !.inTxn = TRUE]

Ok(c, ret) == [c |-> c, status |-> "ok", ret |-> ret]
Err(c, e) == [c |-> c, status |-> e, ret |-> None]

\* `with self.conn:` around a body whose outcome is o: commit when the body
\* returned, rollback when it raised (the exception goes on to the caller).
with_conn(o) ==
    IF o.status = "ok" THEN Ok(commit(o.c), o.ret)
    ELSE Err(rollback(o.c), o.status)

\* ------------------------------------------------------------ add_scene

SceneRequired == {"timestamp", "camera_id", "media_path"}

add_scene(c, metadata) ==
    IF ~(SceneRequired \subseteq DOMAIN metadata)
    THEN Err(c, "KeyError")
    ELSE LET b == begin(c)
             id == NextId(b.db, "scenes", "scene_id")
             row == [scene_id |-> id,
                     timestamp |-> metadata["timestamp"],
                     latitude |-> Get(metadata, "latitude"),
                     longitude |-> Get(metadata, "longitude"),
                     resolution |-> Get(metadata, "resolution"),
                     camera_id |-> metadata["camera_id"],
                     media_path |-> metadata["media_path"]]
         IN  Ok([b EXCEPT !.db.scenes = @ \cup {row},
                          !.db.seq.scenes = id], id)

create_scene(c, metadata) == add_scene(c, metadata)

\* -------------------------------------------------------- add_detections

\* A value sqlite3 can bind as a statement parameter.
Bindable(v) == v # Unbindable

DetRequired == {"class", "confidence", "bbox"}

\* Cursor.executemany of the detections INSERT over values[i..]: a parameter
\* that cannot be bound, or a failed foreign-key check, raises at that row.
RECURSIVE executemany_detections(_, _, _)
executemany_detections(c, values, i) ==
    IF i > Len(values) THEN Ok(c, None)
    ELSE LET v == values[i]
             id == NextId(c.db, "detections", "detection_id")
             row == [detection_id |-> id, scene_id |-> v[1],
                     class_label |-> v[2], confidence |-> v[3],
                     x_min |-> v[4], y_min |-> v[5],
                     x_max |-> v[6], y_max |-> v[7]]
         IN  IF \E k \in 2..7 : ~Bindable(v[k]) THEN Err(c, "ProgrammingError")
             ELSE IF ~FkOk(c.db, v[1]) THEN Err(c, "IntegrityError")
             ELSE executemany_detections(
                      [c EXCEPT !.db.detections = @ \cup {row},
                                !.db.seq.detections = id], values, i + 1)

add_detections(c, scene_id, detections) ==
    IF \E i \in DOMAIN detections : ~(DetRequired \subseteq DOMAIN detections[i])
    THEN Err(c, "KeyError")
    ELSE LET values == [i \in DOMAIN detections |->
                          LET d == detections[i]
                          IN  <<scene_id, d["class"], d["confidence"],
                                d["bbox"][1], d["bbox"][2],
                                d["bbox"][3], d["bbox"][4]>>]
         IN  with_conn(executemany_detections(begin(c), values, 1))

\* -------------------------------------------------------- add_annotation

add_annotation(c, scene_id, annotation) ==
    IF "label_type" \notin DOMAIN annotation
    THEN Err(c, "KeyError")
    ELSE LET b == begin(c)
             id == NextId(b.db, "annotations", "annotation_id")
             row == [annotation_id |-> id, scene_id |-> scene_id,
                     label_type |-> annotation["label_type"],
                     description |-> Get(annotation, "description"),
                     class_label |-> Get(annotation, "class_label"),
                     x_min |-> Get(annotation, "x_min"),
                     y_min |-> Get(annotation, "y_min"),
                     x_max |-> Get(annotation, "x_max"),
                     y_max |-> Get(annotation, "y_max"),
                     annotated_by |-> Get(annotation, "annotated_by")]
         IN  with_conn(
               IF \E k \in DOMAIN annotation : ~Bindable(annotation[k])
               THEN Err(b, "ProgrammingError")
               ELSE IF ~FkOk(b.db, scene_id) THEN Err(b, "IntegrityError")
               ELSE Ok([b EXCEPT !.db.annotations = @ \cup {row},
                                 !.db.seq.annotations = id], None))

\* ------------------------------------------------- add_scene_description

add_scene_description(c, scene_id, description, confidence, model_version) ==
    LET b == begin(c)
        id == NextId(b.db, "descriptions", "description_id")
        row == [description_id |-> id, scene_id |-> scene_id,
                description |-> description, confidence |-> confidence,
                model_version |-> model_version]
    IN  with_conn(
          IF ~Bindable(description) \/ ~Bindable(confidence)
             \/ ~Bindable(model_version)
          THEN Err(b, "ProgrammingError")
          ELSE IF ~FkOk(b.db, scene_id) THEN Err(b, "IntegrityError")
          ELSE Ok([b EXCEPT !.db.descriptions = @ \cup {row},
                            !.db.seq.descriptions = id], None))

\* ----------------------------------------------------- assign_to_dataset

\* datasets has no declared key: its rows carry SQLite's implicit rowid, one
\* more than the largest rowid in the table.
RECURSIVE executemany_datasets(_, _, _)
executemany_datasets(c, values, i) ==
    IF i > Len(values) THEN Ok(c, None)
    ELSE LET v == values[i]
             rowid == Max({0} \cup {r.rowid : r \in c.db.datasets}) + 1
             row == [rowid |-> rowid, scene_id |-> v[1], dataset_type |-> v[2]]
         IN  IF ~Bindable(v[2]) THEN Err(c, "ProgrammingError")
             ELSE IF ~FkOk(c.db, v[1]) THEN Err(c, "IntegrityError")
             ELSE executemany_datasets(
                      [c EXCEPT !.db.datasets = @ \cup {row}], values, i + 1)

assign_to_dataset(c, scene_ids, dataset_type) ==
    LET values == [i \in DOMAIN scene_ids |-> <<scene_ids[i], dataset_type>>]
    IN  with_conn(executemany_datasets(begin(c), values, 1))

\* ---------------------------------------------------- incremental_update

\* The loop of incremental_update from record i on; the first call that
\* raises ends it.
RECURSIVE incremental_update_from(_, _, _)
incremental_update_from(c, new_scenes, i) ==
    IF i > Len(new_scenes) THEN Ok(c, None)
    ELSE LET scene == new_scenes[i]
             o1 == add_scene(c, scene["metadata"])
             o2 == IF "detections" \in DOMAIN scene
                   THEN add_detections(o1.c, o1.ret, scene["detections"])
                   ELSE Ok(o1.c, None)
             o3 == IF "description" \in DOMAIN scene
                   THEN IF {"confidence", "model_version"} \subseteq DOMAIN scene
                        THEN add_scene_description(o2.c, o1.ret,
                                 scene["description"], scene["confidence"],
                                 scene["model_version"])
                        ELSE Err(o2.c, "KeyError")
                   ELSE Ok(o2.c, None)
         IN  IF o1.status # "ok" THEN o1
             ELSE IF o2.status # "ok" THEN o2
             ELSE IF o3.status # "ok" THEN o3
             ELSE incremental_update_from(o3.c, new_scenes, i + 1)

incremental_update(c, new_scenes) ==
    with_conn(incremental_update_from(c, new_scenes, 1))

\* ------------------------------------------------------- update / delete

\* execute_update with the WHERE clause lost: every row of the table is set.
execute_update_all_rows(c, table, cols, keycol, id, updates) ==
    IF DOMAIN updates = {} \/ ~(DOMAIN updates \subseteq Range(cols))
    THEN [c |-> c, status |-> "OperationalError", ret |-> None]
    ELSE [c |-> [c EXCEPT !.inTxn = TRUE,
                          !.db[table] =
                             {[k \in DOMAIN r |->
                                 IF k \in DOMAIN updates THEN updates[k] ELSE r[k]]
                                : r \in @}],
          status |-> "ok", ret |-> None]

\* UPDATE <table> SET k = ? (k in updates) WHERE <keycol> = ?, built from the
\* keys of updates: no key gives "SET  WHERE" (a syntax error) and a key that
\* is no column gives "no such column"; both raise when the statement is
\* prepared.  A value that cannot be bound raises after the implicit BEGIN.
execute_update(c, table, cols, keycol, id, updates) ==
    IF DOMAIN updates = {} \/ ~(DOMAIN updates \subseteq Range(cols))
    THEN Err(c, "OperationalError")
    ELSE LET b == begin(c)
             set(r) == [k \in DOMAIN r |->
                          IF k \in DOMAIN updates THEN updates[k] ELSE r[k]]
         IN  IF \E k \in DOMAIN updates : ~Bindable(updates[k])
             THEN Err(b, "ProgrammingError")
             ELSE Ok([b EXCEPT !.db[table] =
                         {IF r[keycol] = id THEN set(r) ELSE r : r \in @}], None)

update_scene(c, scene_id, updates) ==
    with_conn(execute_update(c, "scenes", SceneCols, "scene_id", scene_id, updates))

update_detection(c, detection_id, updates) ==
    with_conn(execute_update(c, "detections", DetCols, "detection_id",
                             detection_id, updates))

update_annotation(c, annotation_id, updates) ==
    with_conn(execute_update(c, "annotations", AnnCols, "annotation_id",
                             annotation_id, updates))

\* ON DELETE CASCADE of the four dependent tables: SQLite acts on it only
\* while foreign_keys is on.
Cascade(d, scene_id) ==
    IF foreign_keys
    THEN [d EXCEPT !.detections = {r \in @ : r.scene_id # scene_id},
                   !.annotations = {r \in @ : r.scene_id # scene_id},
                   !.descriptions = {r \in @ : r.scene_id # scene_id},
                   !.datasets = {r \in @ : r.scene_id # scene_id}]
    ELSE d

delete_scene(c, scene_id) ==
    LET b == begin(c)
        d == [b.db EXCEPT !.scenes = {r \in @ : r.scene_id # scene_id}]
    IN  with_conn(Ok([b EXCEPT !.db = Cascade(d, scene_id)], None))

delete_detection(c, detection_id) ==
    LET b == begin(c)
    IN  with_conn(Ok([b EXCEPT !.db.detections =
                         {r \in @ : r.detection_id # detection_id}], None))

delete_annotation(c, annotation_id) ==
    LET b == begin(c)
    IN  with_conn(Ok([b EXCEPT !.db.annotations =
                         {r \in @ : r.annotation_id # annotation_id}], None))

\* ------------------------------------------------------------------ reads

\* Python values a read returns: a tuple (what sqlite3 yields for a row when
\* no row_factory is set), a dict, or a list (a TLA+ sequence) of them.
PyTuple(items) == [type |-> "tuple", items |-> items]
PyDict(keys, map) == [type |-> "dict", keys |-> keys, map |-> map]

\* The rows of S as a sequence in ascending order of their (unique) key: the
\* order of a table scan.
RECURSIVE OrderBy(_, _)
OrderBy(S, key) ==
    IF S = {} THEN <<>>
    ELSE LET r == CHOOSE x \in S : \A y \in S : x[key] <= y[key]
         IN  <<r>> \o OrderBy(S \ {r}, key)

RECURSIVE Flatten(_)
Flatten(ss) == IF ss = <<>> THEN <<>> ELSE Head(ss) \o Flatten(Tail(ss))

\* The sequence of F(x) for the x of s, in order.
RECURSIVE Map(_, _)
Map(F(_), s) == IF s = <<>> THEN <<>> ELSE <<F(Head(s))>> \o Map(F, Tail(s))

\* A row of SELECT * as the cursor yields it: the values in column order.
Fetch(r, cols) == PyTuple(Map(LAMBDA k : r[k], cols))

\* {description[i][0]: value for i, value in enumerate(row)}
row_to_dict(row, description) ==
    PyDict(description,
           [k \in Range(description) |->
              row.items[CHOOSE i \in 1..Len(description) : description[i] = k]])

get_scene(c, scene_id) ==
    LET rows == OrderBy({r \in c.db.scenes : r.scene_id = scene_id}, "scene_id")
    IN  Ok(c, IF rows # <<>> THEN row_to_dict(Fetch(rows[1], SceneCols), SceneCols)
              ELSE None)

get_detection(c, detection_id) ==
    LET rows == OrderBy({r \in c.db.detections : r.detection_id = detection_id},
                        "detection_id")
    IN  Ok(c, IF rows # <<>> THEN row_to_dict(Fetch(rows[1], DetCols), DetCols)
              ELSE None)

get_annotation(c, annotation_id) ==
    LET rows == OrderBy({r \in c.db.annotations : r.annotation_id = annotation_id},
                        "annotation_id")
    IN  Ok(c, IF rows # <<>> THEN row_to_dict(Fetch(rows[1], AnnCols), AnnCols)
              ELSE None)

get_scene_detections(c, scene_id) ==
    LET rows == OrderBy({r \in c.db.detections : r.scene_id = scene_id},
                        "detection_id")
    IN  Ok(c, Map(LAMBDA r : row_to_dict(Fetch(r, DetCols), DetCols), rows))

\* Timestamps and confidences are stored as given; the strings below compare
\* (as text, resp. as numbers) in the order they are listed.
TsNames == <<"2024-01-01T00:00:00", "2024-01-02T00:00:00", "2024-01-03T00:00:00",
             "2024-01-04T00:00:00", "2024-01-05T00:00:00", "2024-01-06T00:00:00">>
ConfNames == <<"0.4", "0.5", "0.9">>
Rank(names, v) == CHOOSE i \in 1..Len(names) : names[i] = v
TsLeq(a, b) == Rank(TsNames, a) <= Rank(TsNames, b)
ConfGeq(a, b) == a # NULL /\ Rank(ConfNames, a) >= Rank(ConfNames, b)

get_scenes_by_time_range(c, start, end) ==
    LET rows == OrderBy({r \in c.db.scenes : TsLeq(start, r.timestamp)
                                             /\ TsLeq(r.timestamp, end)}, "scene_id")
    IN  Ok(c, Map(LAMBDA r : Fetch(r, SceneCols), rows))

get_detections_by_class(c, class_label, confidence_threshold) ==
    LET rows == OrderBy({r \in c.db.detections :
                            r.class_label = class_label
                            /\ ConfGeq(r.confidence, confidence_threshold)},
                        "detection_id")
    IN  Ok(c, Map(LAMBDA r : Fetch(r, DetCols), rows))

\* scenes JOIN datasets LEFT JOIN scene_descriptions WHERE dataset_type =
\* 'train': one row per pair of a train assignment of the scene and a
\* description of the scene, or per train assignment, with a NULL description,
\* when the scene has no description.
get_training_data(c) ==
    LET scenes == OrderBy(c.db.scenes, "scene_id")
        forScene(s) ==
            LET ds == OrderBy({a \in c.db.datasets : a.scene_id = s.scene_id
                                  /\ a.dataset_type = "train"}, "rowid")
                d == OrderBy({x \in c.db.descriptions : x.scene_id = s.scene_id},
                             "description_id")
                joined == IF d = <<>>
                          THEN <<PyTuple(Fetch(s, SceneCols).items \o <<NULL>>)>>
                          ELSE Map(LAMBDA x : PyTuple(Fetch(s, SceneCols).items
                                                      \o <<x.description>>), d)
            IN  Flatten(Map(LAMBDA a : joined, ds))
    IN  Ok(c, Flatten(Map(forScene, scenes)))

\* Descending with ORDER BY timestamp ASC instead.
Ascending(S) ==
    {p \in [1..Cardinality(S) -> S] :
        /\ \A i, j \in DOMAIN p : i # j => p[i] # p[j]
        /\ \A i, j \in DOMAIN p :
              i < j => Rank(TsNames, p[i].timestamp) <= Rank(TsNames, p[j].timestamp)}

\* ORDER BY timestamp DESC: the orders of S in which no row precedes one with
\* a greater timestamp (rows with equal timestamps come in either order).
Descending(S) ==
    {p \in [1..Cardinality(S) -> S] :
        /\ \A i, j \in DOMAIN p : i # j => p[i] # p[j]
        /\ \A i, j \in DOMAIN p : i < j => TsLeq(p[j].timestamp, p[i].timestamp)}

\* LIMIT n: the first n rows; SQLite reads a negative n as no limit.
Limit(rows, n) ==
    IF n < 0 THEN rows ELSE SubSeq(rows, 1, Min2(n, Len(rows)))

\* The results get_all_scenes may return (one per admissible order).
get_all_scenes(c, limit) ==
    {Ok(c, Map(LAMBDA r : row_to_dict(Fetch(r, SceneCols), SceneCols),
               Limit(p, limit)))
       : p \in Descending(c.db.scenes)}

\* ----------------------------------------------------------------- inputs

Timestamps == {TsNames[i] : i \in 1..MaxTs}
SceneIds == 1..MaxScenes
ParentIds == 1..MaxParents
DetIds == 1..MaxDets
AnnIds == 1..MaxAnns

Meta(ts, path) == [timestamp |-> ts, camera_id |-> "cam0", media_path |-> path]
\* Metadata without the required camera_id and media_path.
MetaBad == [timestamp |-> TsNames[1]]

Det(class, conf) ==
    [class |-> class, confidence |-> conf, bbox |-> <<"0", "0", "10", "10">>]
\* A detection without confidence and bbox, and one whose confidence is a list.
DetMissing == [class |-> "car"]
DetUnbindable == Det("car", Unbindable)
DetLists == {<<>>, <<Det("car", "0.9")>>, <<Det("car", "0.4"), Det("bus", "0.9")>>,
             <<Det("car", "0.9"), DetMissing>>, <<Det("car", "0.9"), DetUnbindable>>}

Annotations == {[label_type |-> "classification", class_label |-> "car"],
                [description |-> "no label type"],
                [label_type |-> "bbox-correction", annotated_by |-> Unbindable]}

Descriptions == {"a road", Unbindable}
DatasetTypes == {"train", "val"}
IdLists == {<<>>} \cup {<<i>> : i \in ParentIds} \cup {<<i, j>> : i, j \in ParentIds}

\* The empty dict.
EmptyMap == [k \in {} |-> NULL]

\* Mappings of an update: valid ones, one naming no column of the table, one
\* with a value that cannot be bound, and the empty one.
SceneUpdates == {[latitude |-> "12.5"],
                 [timestamp |-> TsNames[2], media_path |-> "/m/c.jpg"],
                 [altitude |-> "3"], [latitude |-> Unbindable], EmptyMap}
DetUpdates == {[class_label |-> "bus", confidence |-> "0.5"], [label |-> "bus"], EmptyMap}
AnnUpdates == {[description |-> "checked"], [reviewer |-> "me"], EmptyMap}

\* The records of an incremental_update batch.
M0 == Meta(TsNames[1], "/m/a.jpg")
Records ==
    {[metadata |-> M0],
     [metadata |-> M0, detections |-> <<Det("car", "0.9")>>],
     [metadata |-> M0, detections |-> <<DetMissing>>],
     [metadata |-> M0, detections |-> <<>>],
     [metadata |-> M0, description |-> "a road", confidence |-> "0.9",
      model_version |-> "v1"],
     [metadata |-> M0, detections |-> <<Det("car", "0.9")>>,
      description |-> "a road"],
     [metadata |-> MetaBad]}
Batches == UNION {[1..n -> Records] : n \in 1..MaxBatch}

\* The detections a batch would insert if nothing failed.
RECURSIVE BatchDets(_)
BatchDets(b) ==
    IF b = <<>> THEN 0
    ELSE (IF "detections" \in DOMAIN Head(b) THEN Len(Head(b)["detections"]) ELSE 0)
         + BatchDets(Tail(b))

\* ---------------------------------------------------------------- actions

Conn == [db |-> db, disk |-> disk, inTxn |-> inTxn]

\* The parts of a recorded call.
Op(l) == l[1]
Status(l) == l[2]
Args(l) == l[3]
Ret(l) == l[4]

\* The call op(args) returned or raised with outcome o.
Call(op, args, o) ==
    /\ db' = o.c.db
    /\ disk' = o.c.disk
    /\ inTxn' = o.c.inTxn
    /\ last' = <<op, o.status, args, o.ret>>
    /\ UNCHANGED isOpen

Init ==
    /\ disk = EmptyDb
    /\ db = EmptyDb
    /\ inTxn = FALSE
    /\ isOpen = TRUE
    /\ issued = {}
    /\ last = <<"__init__", "ok", <<>>, None>>

CreateScene(m) ==
    /\ isOpen
    /\ db.seq.scenes < MaxScenes
    /\ LET o == create_scene(Conn, m)
       IN  /\ Call("create_scene", <<m>>, o)
           /\ issued' = IF o.status = "ok" THEN issued \cup {o.ret} ELSE issued

AddDetections(id, dets) ==
    /\ isOpen
    /\ db.seq.detections + Len(dets) <= MaxDets
    /\ Call("add_detections", <<id, dets>>, add_detections(Conn, id, dets))
    /\ UNCHANGED issued

AddAnnotation(id, a) ==
    /\ isOpen
    /\ db.seq.annotations < MaxAnns
    /\ Call("add_annotation", <<id, a>>, add_annotation(Conn, id, a))
    /\ UNCHANGED issued

AddSceneDescription(id, d) ==
    /\ isOpen
    /\ db.seq.descriptions < MaxDescs
    /\ Call("add_scene_description", <<id, d>>,
            add_scene_description(Conn, id, d, "0.9", "v1"))
    /\ UNCHANGED issued

AssignToDataset(ids, t) ==
    /\ isOpen
    /\ Cardinality(db.datasets) + Len(ids) <= MaxAssign
    /\ Call("assign_to_dataset", <<ids, t>>, assign_to_dataset(Conn, ids, t))
    /\ UNCHANGED issued

IncrementalUpdate(b) ==
    /\ isOpen
    /\ db.seq.scenes + Len(b) <= MaxScenes
    /\ db.seq.detections + BatchDets(b) <= MaxDets
    /\ db.seq.descriptions + Len(b) <= MaxDescs
    /\ Call("incremental_update", <<b>>, incremental_update(Conn, b))
    /\ UNCHANGED issued

UpdateScene(id, u) ==
    /\ isOpen
    /\ Call("update_scene", <<id, u>>, update_scene(Conn, id, u))
    /\ UNCHANGED issued

UpdateDetection(id, u) ==
    /\ isOpen
    /\ Call("update_detection", <<id, u>>, update_detection(Conn, id, u))
    /\ UNCHANGED issued

UpdateAnnotation(id, u) ==
    /\ isOpen
    /\ Call("update_annotation", <<id, u>>, update_annotation(Conn, id, u))
    /\ UNCHANGED issued

DeleteScene(id) ==
    /\ isOpen
    /\ Call("delete_scene", <<id>>, delete_scene(Conn, id))
    /\ UNCHANGED issued

DeleteDetection(id) ==
    /\ isOpen
    /\ Call("delete_detection", <<id>>, delete_detection(Conn, id))
    /\ UNCHANGED issued

DeleteAnnotation(id) ==
    /\ isOpen
    /\ Call("delete_annotation", <<id>>, delete_annotation(Conn, id))
    /\ UNCHANGED issued

\* close(): the connection goes, and with it whatever it had not committed.
Close ==
    /\ isOpen
    /\ isOpen' = FALSE
    /\ db' = disk
    /\ inTxn' = FALSE
    /\ last' = <<"close", "ok", <<>>, None>>
    /\ UNCHANGED <<disk, issued>>

\* SceneDatabase(db_path) on the same file: a new connection, and the schema
\* script, which creates only what does not exist.
Reopen ==
    /\ ~isOpen
    /\ isOpen' = TRUE
    /\ db' = disk
    /\ inTxn' = FALSE
    /\ last' = <<"__init__", "ok", <<>>, None>>
    /\ UNCHANGED <<disk, issued>>

GetScene(id) ==
    /\ isOpen
    /\ Call("get_scene", <<id>>, get_scene(Conn, id))
    /\ UNCHANGED issued

GetDetection(id) ==
    /\ isOpen
    /\ Call("get_detection", <<id>>, get_detection(Conn, id))
    /\ UNCHANGED issued

GetAnnotation(id) ==
    /\ isOpen
    /\ Call("get_annotation", <<id>>, get_annotation(Conn, id))
    /\ UNCHANGED issued

GetSceneDetections(id) ==
    /\ isOpen
    /\ Call("get_scene_detections", <<id>>, get_scene_detections(Conn, id))
    /\ UNCHANGED issued

GetScenesByTimeRange(start, end) ==
    /\ isOpen
    /\ Call("get_scenes_by_time_range", <<start, end>>,
            get_scenes_by_time_range(Conn, start, end))
    /\ UNCHANGED issued

GetDetectionsByClass(class, threshold) ==
    /\ isOpen
    /\ Call("get_detections_by_class", <<class, threshold>>,
            get_detections_by_class(Conn, class, threshold))
    /\ UNCHANGED issued

GetTrainingData ==
    /\ isOpen
    /\ Call("get_training_data", <<>>, get_training_data(Conn))
    /\ UNCHANGED issued

GetAllScenes(limit) ==
    /\ isOpen
    /\ \E o \in get_all_scenes(Conn, limit) : Call("get_all_scenes", <<limit>>, o)
    /\ UNCHANGED issued

\* ---------------------------------------------------------- specifications

\* Transactions: scenes written with and without a commit, failing writes,
\* close and reopen.
Next ==
    \/ \E m \in {M0, MetaBad} : CreateScene(m)
    \/ \E id \in SceneIds, dets \in DetLists : AddDetections(id, dets)
    \/ \E id \in SceneIds, u \in SceneUpdates : UpdateScene(id, u)
    \/ \E id \in SceneIds : DeleteScene(id)
    \/ \E id \in DetIds : DeleteDetection(id)
    \/ Close
    \/ Reopen
    \/ \E id \in SceneIds : GetScene(id)

Spec == Init /\ [][Next]_vars

\* Batches of incremental_update, after scenes created one by one.
NextBatch ==
    \/ CreateScene(M0)
    \/ \E b \in Batches : IncrementalUpdate(b)
    \/ \E id \in SceneIds : DeleteScene(id)
    \/ Close
    \/ Reopen

SpecBatch == Init /\ [][NextBatch]_vars

\* Referential integrity: inserts into the four dependent tables, and the
\* deletion of scenes.
NextRef ==
    \/ db.seq.scenes < MaxParents /\ CreateScene(M0)
    \/ \E id \in ParentIds : AddDetections(id, <<Det("car", "0.9")>>)
    \/ \E id \in ParentIds, a \in Annotations : AddAnnotation(id, a)
    \/ \E id \in ParentIds, d \in Descriptions : AddSceneDescription(id, d)
    \/ \E ids \in IdLists : AssignToDataset(ids, "train")
    \/ \E id \in ParentIds : DeleteScene(id)
    \/ \E id \in ParentIds : GetSceneDetections(id)

SpecRef == Init /\ [][NextRef]_vars

\* Partial updates of the three updatable tables; the detections and the
\* annotations belong to the first scene.
NextUpdate ==
    \/ db.seq.scenes < MaxParents /\ CreateScene(M0)
    \/ AddDetections(Min(SceneIds), <<Det("car", "0.9")>>)
    \/ AddAnnotation(Min(SceneIds), [label_type |-> "classification"])
    \/ \E id \in ParentIds, u \in SceneUpdates : UpdateScene(id, u)
    \/ \E id \in DetIds, u \in DetUpdates : UpdateDetection(id, u)
    \/ \E id \in AnnIds, u \in AnnUpdates : UpdateAnnotation(id, u)

SpecUpdate == Init /\ [][NextUpdate]_vars

\* Scenes of any timestamps, some deleted again, and the listing of the most
\* recent ones.
NextScenes ==
    \/ \E ts \in Timestamps : CreateScene(Meta(ts, "/m/a.jpg"))
    \/ \E id \in SceneIds : DeleteScene(id)
    \/ \E limit \in -1..MaxScenes + 1 : GetAllScenes(limit)

SpecScenes == Init /\ [][NextScenes]_vars

\* The other queries, over populations of scenes, detections, annotations,
\* descriptions and dataset assignments.
NextQuery ==
    \/ db.seq.scenes < MaxParents /\ CreateScene(M0)
    \/ AddDetections(Min(SceneIds), <<Det("car", "0.9")>>)
    \/ AddDetections(Min(SceneIds), <<Det("car", "0.4"), Det("bus", "0.9")>>)
    \/ AddAnnotation(Min(SceneIds), [label_type |-> "classification"])
    \/ \E id \in ParentIds, d \in {"a road", "a car park"} :
          AddSceneDescription(id, d)
    \/ \E ids \in IdLists, t \in DatasetTypes : AssignToDataset(ids, t)
    \/ \E id \in ParentIds : GetScene(id)
    \/ \E id \in DetIds : GetDetection(id)
    \/ \E id \in AnnIds : GetAnnotation(id)
    \/ \E id \in ParentIds : GetSceneDetections(id)
    \/ \E b \in Timestamps : GetScenesByTimeRange(TsNames[1], b)
    \/ \E t \in Range(ConfNames) : GetDetectionsByClass("car", t)
    \/ GetTrainingData

SpecQuery == Init /\ [][NextQuery]_vars

\* ------------------------------------------------------------- properties

Tables == {"scenes", "detections", "annotations", "descriptions", "datasets"}
Dependents == Tables \ {"scenes"}
SameTables(d, e) == \A t \in Tables : d[t] = e[t]

WriteOps == {"create_scene", "add_detections", "add_annotation",
             "add_scene_description", "assign_to_dataset", "incremental_update",
             "update_scene", "update_detection", "update_annotation",
             "delete_scene", "delete_detection", "delete_annotation"}
ListReads == {"get_scenes_by_time_range", "get_detections_by_class",
              "get_all_scenes", "get_scene_detections", "get_training_data"}
RowReads == {"get_scene", "get_detection", "get_annotation"}

\* C1: an incremental_update that fails leaves no row it created: none in
\* scenes, detections or scene_descriptions that was not there before the call.
C1_BatchAllOrNothing ==
    [][(Op(last') = "incremental_update" /\ Status(last') # "ok")
         => /\ db'.scenes \subseteq db.scenes
            /\ db'.detections \subseteq db.detections
            /\ db'.descriptions \subseteq db.descriptions]_vars

\* C2: a write that fails leaves the contents of all five tables as they were
\* immediately before the call.
C2_FailedWriteLeavesTables ==
    [][(Op(last') \in WriteOps /\ Status(last') # "ok") => SameTables(db', db)]_vars

\* C3: a write that returned has committed its effect: no transaction is open
\* on the connection and the file holds what the connection sees.
C3_WritesCommitted ==
    (Op(last) \in WriteOps /\ Status(last) = "ok") => (~inTxn /\ disk = db)

\* C4: after delete_scene(id) of a scene of the store no row of the four dependent tables has
\* scene_id = id, and their rows of other scenes are as before.
C4_DeleteCascades ==
    [][(/\ Op(last') = "delete_scene" /\ Status(last') = "ok"
        /\ \E s \in db.scenes : s.scene_id = Args(last')[1])
         => \A t \in Dependents :
               db'[t] = {r \in db[t] : r.scene_id # Args(last')[1]}]_vars

\* The scene ids an insert into a dependent table was called with.
CalledWith(l) ==
    IF Op(l) = "assign_to_dataset" THEN Range(Args(l)[1]) ELSE {Args(l)[1]}

\* C5: an insert into a dependent table called with a scene id that is not in
\* scenes fails and inserts no row.
C5_InsertNeedsScene ==
    [][(/\ Op(last') \in {"add_detections", "add_annotation",
                         "add_scene_description", "assign_to_dataset"}
        /\ \E id \in CalledWith(last') : \A s \in db.scenes : s.scene_id # id)
         => (Status(last') # "ok" /\ SameTables(db', db))]_vars

\* C6: the id create_scene returns is greater than every id it has returned
\* before on the same file.
C6_IdsNeverReused ==
    [][(Op(last') = "create_scene" /\ Status(last') = "ok")
         => \A i \in issued : Ret(last') > i]_vars

UpdatedTable(op) ==
    CASE op = "update_scene" -> [table |-> "scenes", key |-> "scene_id"]
      [] op = "update_detection" -> [table |-> "detections", key |-> "detection_id"]
      [] op = "update_annotation" -> [table |-> "annotations", key |-> "annotation_id"]

\* C7: an update with valid column names that returns changes, in the row with
\* the given key, exactly the named columns to the supplied values; the other
\* columns of that row, the other rows of the table and the other four tables
\* are unchanged.
C7_UpdateFrame ==
    [][(Op(last') \in {"update_scene", "update_detection", "update_annotation"}
        /\ Status(last') = "ok")
         => LET t == UpdatedTable(Op(last')).table
                key == UpdatedTable(Op(last')).key
                id == Args(last')[1]
                u == Args(last')[2]
            IN  /\ \A x \in Tables \ {t} : db'[x] = db[x]
                /\ Cardinality(db'[t]) = Cardinality(db[t])
                /\ \A r \in db[t] : r[key] # id => r \in db'[t]
                /\ \A r \in db[t] : r[key] = id =>
                      \E q \in db'[t] :
                         /\ \A k \in DOMAIN u : q[k] = u[k]
                         /\ \A k \in DOMAIN r \ DOMAIN u : q[k] = r[k]]_vars

\* C7's case: an update of one column of one of two scenes has returned.
C7_Witness ==
    /\ Op(last) = "update_scene" /\ Status(last) = "ok"
    /\ DOMAIN Args(last)[2] = {"latitude"}
    /\ \E r, q \in db.scenes :
          /\ r.scene_id = Args(last)[1] /\ r.latitude = Args(last)[2]["latitude"]
          /\ q.scene_id # r.scene_id /\ q.latitude = NULL

\* The rows of a get_training_data result that belong to scene s.
TrainingRows(ret, s) == {i \in DOMAIN ret : ret[i].items[1] = s.scene_id}

\* C8: get_training_data returns rows only for scenes with a 'train'
\* assignment, and for each such scene one row per description of the scene
\* (one row, with a NULL description, when it has none).
C8_OneRowPerDescription ==
    Op(last) = "get_training_data" =>
       \A s \in db.scenes :
          LET train == {a \in db.datasets : a.scene_id = s.scene_id
                                            /\ a.dataset_type = "train"}
              descs == {d \in db.descriptions : d.scene_id = s.scene_id}
              rows == TrainingRows(Ret(last), s)
          IN  /\ train = {} => rows = {}
              /\ (train # {} /\ descs = {}) =>
                    (Cardinality(rows) = 1
                     /\ \A i \in rows : Ret(last)[i].items[Len(SceneCols) + 1] = NULL)
              /\ (train # {} /\ descs # {}) =>
                    Cardinality(rows) = Cardinality(descs)

DistinctTimestamps(S) == \A r, q \in S : r # q => r.timestamp # q.timestamp

C10_ReadsReturnMappings ==
    /\ (Op(last) \in ListReads /\ Status(last) = "ok") =>
          \A i \in DOMAIN Ret(last) : Ret(last)[i].type = "dict"
    /\ (Op(last) \in RowReads /\ Status(last) = "ok") =>
          Ret(last).type \in {"dict", "NoneType"}

====
